---- MODULE Spec2Model ----
(***************************************************************************)
(* Model of tarification.py: the decoder of the Civilization VI save-file  *)
(* container (parse_civ6save, the strict 8-stage pipeline, and             *)
(* parse_jack_shit, the scanning fallback) and of the section encoders.    *)
(*                                                                         *)
(* The input buffer is a sequence of bytes with a cursor `pos` (0-based,   *)
(* as BinaryIO.tell()).  BinaryIO.read(n) past the end of the buffer       *)
(* returns the bytes that are left (possibly none) and never raises.       *)
(* Python `assert` statements are taken as live (no -O).                   *)
(* print() calls and the debug.bin / debug2.bin dumps change no state of   *)
(* the decoder and are left out, except where evaluating a print argument  *)
(* can raise (parse_n_elements, line 536).                                 *)
(***************************************************************************)
EXTENDS Integers, Sequences, FiniteSets, TLC

Min(a, b) == IF a < b THEN a ELSE b

Zeros(n) == [i \in 1..n |-> 0]

(* int.from_bytes(b, "little", signed=False); b may be shorter than asked *)
RECURSIVE FromBytes(_)
FromBytes(b) == IF Len(b) = 0 THEN 0 ELSE Head(b) + 256 * FromBytes(Tail(b))

RECURSIVE Pow256(_)
Pow256(n) == IF n = 0 THEN 1 ELSE 256 * Pow256(n - 1)

(* x.to_bytes(n, "little", signed=False) for 0 <= x < 256^n *)
ToBytes(x, n) == [i \in 1..n |-> (x \div Pow256(i - 1)) % 256]

(* _to_bytes: OverflowError for a negative value *)
_to_bytes(x) ==
    IF x < 0 THEN [res |-> "raise", exc |-> "OverflowError", val |-> <<>>]
    ELSE [res |-> "ok", exc |-> "", val |-> ToBytes(x, 4)]

(* Python bytes slice b[lo:hi] with 0 <= lo, clamped to the length *)
Slice(b, lo, hi) == SubSeq(b, lo + 1, Min(hi, Len(b)))

(* input_buffer.read(n) at cursor pos (pos at or past the end reads b'').  *)
(* short: fewer than n bytes were left.                                    *)
read(buf, pos, n) ==
    [val   |-> SubSeq(buf, pos + 1, Min(pos + n, Len(buf))),
     pos   |-> Min(pos + n, Len(buf)),
     short |-> pos + n > Len(buf)]

(* Fields of fixed size that follow one another are read at their offsets  *)
(* from the cursor they start at: read(buf, pos + 8, 4) is the read(4)     *)
(* that follows a read(8) at pos.  Operators named f_of, f_with, ...       *)
(* continue the function f with the value of a call it makes.              *)

int32_of(r) == [val |-> FromBytes(r.val), pos |-> r.pos, short |-> r.short]

_parse_int32(buf, pos) == int32_of(read(buf, pos, 4))

(* The value None (a failed element decode, or no marker). *)
None == [kind |-> "None"]

(* Marker.  _parse_marker returns None exactly when the name is empty, so   *)
(* None is represented by the marker with the empty name.                   *)
Marker(name, type_) == [name |-> name, type_ |-> type_]
NoMarker == [name |-> <<>>, type_ |-> -1]

marker_with_type(name, t) ==
    [val |-> Marker(name.val, t.val), pos |-> t.pos, short |-> name.short \/ t.short]

marker_named(buf, name) ==
    IF Len(name.val) = 0
    THEN [val |-> NoMarker, pos |-> name.pos, short |-> name.short]
    ELSE marker_with_type(name, _parse_int32(buf, name.pos))

(* _parse_marker(input_buffer, name=name): name = name or read(4) *)
_parse_marker(buf, pos, name) ==
    marker_named(buf, IF Len(name) > 0
                      THEN [val |-> name, pos |-> pos, short |-> FALSE]
                      ELSE read(buf, pos, 4))

(* Outcomes of a decoding function: it returns val, or raises exc, or the  *)
(* process exits (exit(1) in the CompressedElement branch).                *)
Ret(v, p, s)   == [res |-> "ok", val |-> v, pos |-> p, short |-> s, exc |-> ""]
Raise(x, p, s) == [res |-> "raise", val |-> None, pos |-> p, short |-> s, exc |-> x]
Exit(p, s)     == [res |-> "exit", val |-> None, pos |-> p, short |-> s, exc |-> "SystemExit"]

(* the outcome r of a callee, with the short reads made before it *)
WithShort(r, s) == [r EXCEPT !.short = @ \/ s]

ByteData(b, b_per_element) ==
    [kind |-> "ByteData", b |-> b, b_per_element |-> b_per_element]
RawBytes(b) == [kind |-> "bytes", b |-> b]

(* header == b"\x21": stride, then l * stride bytes *)
byte_data_with(b_per_element, b, s) ==
    Ret(ByteData(b.val, b_per_element.val), b.pos, s \/ b_per_element.short \/ b.short)

byte_data_strided(buf, l, b_per_element, s) ==
    byte_data_with(b_per_element, read(buf, b_per_element.pos, l * b_per_element.val), s)

_read_byte_data(buf, pos) ==
    LET l3     == read(buf, pos, 3)
        l      == FromBytes(l3.val)
        header == read(buf, pos + 3, 1)
        b_per_element_bytes == read(buf, pos + 4, 4)
        supposed_zeroes     == read(buf, pos + 8, 4)
    IN  IF header.val = <<33>>
        THEN byte_data_strided(buf, l, _parse_int32(buf, pos + 4), FALSE)
        ELSE IF l = 0
        THEN \* line 358 builds a RuntimeError and drops it: nothing is raised
             Ret(RawBytes(ToBytes(l, 3) \o header.val \o b_per_element_bytes.val),
                 supposed_zeroes.pos, supposed_zeroes.short)
        ELSE Raise("RuntimeError", header.pos, header.short)

(* The chunk loop of the CompressedElement branch, over the in-memory blob b *)
RECURSIVE blob_chunks(_, _, _)
blob_chunks(b, i, chunks) ==
    IF i < Len(b) /\ Slice(b, i, Len(b)) # <<0, 0, 255, 255>>
    THEN IF Len(b) - i < 4
         THEN [res |-> "exit", chunks |-> chunks]
         ELSE blob_chunks(b, i + 4 + FromBytes(Slice(b, i, i + 4)),
                          Append(chunks,
                                 Slice(b, i + 4, i + 4 + FromBytes(Slice(b, i, i + 4)))))
    ELSE [res |-> "ok", chunks |-> chunks]

(* a decode that lets the value 2 through *)
parse_boolean_upto2(marker, buf, pos) ==
    LET b == read(buf, pos, 8)
        v == _parse_int32(buf, pos + 8)
    IN  IF b.val # Zeros(8) THEN Ret(None, b.pos, b.short)
        ELSE IF v.val > 2 THEN Ret(None, v.pos, v.short)
        ELSE Ret([kind |-> "BooleanElement", marker |-> marker, value |-> v.val],
                 v.pos, v.short)

parse_boolean(marker, buf, pos) ==
    LET b == read(buf, pos, 8)
        v == _parse_int32(buf, pos + 8)
    IN  IF b.val # Zeros(8) THEN Ret(None, b.pos, b.short)
        ELSE IF v.val > 1 THEN Ret(None, v.pos, v.short)
        ELSE Ret([kind |-> "BooleanElement", marker |-> marker, value |-> v.val],
                 v.pos, v.short)

parse_int(marker, buf, pos) ==
    LET b == read(buf, pos, 8)
        v == _parse_int32(buf, pos + 8)
    IN  IF b.val # Zeros(8) THEN Ret(None, b.pos, b.short)
        ELSE Ret([kind |-> "IntElement", marker |-> marker, value |-> v.val],
                 v.pos, v.short)

parse_12bytes(marker, buf, pos) ==
    LET c == read(buf, pos, 12)
    IN  Ret([kind |-> "Unknown12Bytes", marker |-> marker, content |-> c.val],
            c.pos, c.short)

parse_16bytes(marker, buf, pos) ==
    LET c == read(buf, pos, 16)
    IN  Ret([kind |-> "Unknown16Bytes", marker |-> marker, content |-> c.val],
            c.pos, c.short)

(* type 0x4 | 0x5, given byte_data *)
string_of(marker, byte_data) ==
    IF byte_data.res # "ok" THEN byte_data
    ELSE IF byte_data.val.kind = "bytes"
    THEN Ret([kind |-> "UnknownStringElement", marker |-> marker,
              header |-> byte_data.val.b], byte_data.pos, byte_data.short)
    ELSE IF byte_data.val.b_per_element # 1
    THEN Raise("AssertionError", byte_data.pos, byte_data.short)
    ELSE Ret([kind |-> "StringElement", marker |-> marker,
              content |-> byte_data.val], byte_data.pos, byte_data.short)

(* type 0x6, given byte_data: bytes has no attribute b_per_element *)
utf_string_of(marker, byte_data) ==
    IF byte_data.res # "ok" THEN byte_data
    ELSE IF byte_data.val.kind = "bytes"
    THEN Raise("AttributeError", byte_data.pos, byte_data.short)
    ELSE IF byte_data.val.b_per_element # 2
    THEN Raise("AssertionError", byte_data.pos, byte_data.short)
    ELSE Ret([kind |-> "UtfStringElement", marker |-> marker,
              content |-> byte_data.val], byte_data.pos, byte_data.short)

compressed_with(marker, byte_data, cs) ==
    IF cs.res = "exit" THEN Exit(byte_data.pos, byte_data.short)
    ELSE Ret([kind |-> "CompressedElement", marker |-> marker,
              header |-> Slice(byte_data.val.b, 0, 4),
              inflated_size |-> FromBytes(Slice(byte_data.val.b, 4, 8)),
              chunks |-> cs.chunks], byte_data.pos, byte_data.short)

(* type 0x18, given byte_data: bytes has no attribute b *)
compressed_of(marker, byte_data) ==
    IF byte_data.res # "ok" THEN byte_data
    ELSE IF byte_data.val.kind = "bytes"
    THEN Raise("AttributeError", byte_data.pos, byte_data.short)
    ELSE compressed_with(marker, byte_data, blob_chunks(byte_data.val.b, 8, <<>>))

parse_timestamp(marker, buf, pos) ==
    LET p         == read(buf, pos, 8)
        timestamp == _parse_int32(buf, pos + 8)
        z         == read(buf, pos + 12, 4)
    IN  IF p.val # <<0, 0, 0, 128, 0, 0, 0, 0>>
        THEN Raise("AssertionError", p.pos, p.short)
        ELSE IF z.val # Zeros(4)
        THEN Raise("AssertionError", z.pos, z.short)
        ELSE Ret([kind |-> "TimestampElement", marker |-> marker,
                  epoch |-> timestamp.val], z.pos, FALSE)

array0A_of(marker, l) ==
    IF l.res # "ok" THEN l
    ELSE Ret([kind |-> "Array0AElement", marker |-> marker, elements |-> l.val],
             l.pos, l.short)

array0B_of(marker, header, l) ==
    IF l.res # "ok" THEN l
    ELSE Ret([kind |-> "Array0BElement", marker |-> marker,
              header |-> header.val, content |-> l.val], l.pos, l.short)

(* the list so far, then the outcome e of the next child *)
loop_append(acc, e, short) ==
    IF e.res # "ok" THEN WithShort(e, short)
    ELSE Ret(Append(acc, e.val), e.pos, short \/ e.short)

(* two consecutive runs of a loop: the lists a and b in order *)
loop_join(a, b) ==
    IF b.res # "ok" THEN WithShort(b, a.short)
    ELSE Ret(a.val \o b.val, b.pos, a.short \/ b.short)

RECURSIVE parse_element(_, _, _)
RECURSIVE Array0A_loop(_, _, _)
RECURSIVE Array0B_loop(_, _, _)

Array0A_child(buf, m) ==
    loop_append(<<>>, parse_element(m.val, buf, m.pos), m.short)

Array0A_rest(buf, n, a) ==
    IF a.res # "ok" THEN a ELSE loop_join(a, Array0A_loop(buf, a.pos, n))

(* for _ in range(n) of the 0xA branch, from cursor pos: the first n \div 2 *)
(* iterations, then the others from where those ended                      *)
Array0A_loop(buf, pos, n) ==
    IF n <= 0 THEN Ret(<<>>, pos, FALSE)
    ELSE IF n = 1 THEN Array0A_child(buf, _parse_marker(buf, pos, <<>>))
    ELSE Array0A_rest(buf, n - (n \div 2), Array0A_loop(buf, pos, n \div 2))

Array0B_child(buf, t) ==
    loop_append(<<>>, parse_element(Marker(Zeros(4), t.val), buf, t.pos), t.short)

Array0B_rest(buf, n, a) ==
    IF a.res # "ok" THEN a ELSE loop_join(a, Array0B_loop(buf, a.pos, n))

(* for _ in range(n) of the 0xB branch, split likewise *)
Array0B_loop(buf, pos, n) ==
    IF n <= 0 THEN Ret(<<>>, pos, FALSE)
    ELSE IF n = 1 THEN Array0B_child(buf, _parse_int32(buf, pos))
    ELSE Array0B_rest(buf, n - (n \div 2), Array0B_loop(buf, pos, n \div 2))

parse_array0A(marker, buf, pos) ==
    LET p             == read(buf, pos, 8)
        element_count == _parse_int32(buf, pos + 8)
    IN  IF p.val # <<0, 0, 0, 5, 0, 0, 0, 0>>
        THEN Raise("AssertionError", p.pos, p.short)
        ELSE array0A_of(marker,
                WithShort(Array0A_loop(buf, element_count.pos, element_count.val),
                          element_count.short))

parse_array0B(marker, buf, pos) ==
    LET header == read(buf, pos, 8)
        size   == _parse_int32(buf, pos + 8)
    IN  array0B_of(marker, header,
            WithShort(Array0B_loop(buf, size.pos, size.val),
                      header.short \/ size.short))

(* match marker: ... (None, and every other type code, is `anything_else`) *)
parse_element(marker, buf, pos) ==
    CASE marker.type_ = 1  -> parse_boolean(marker, buf, pos)
      [] marker.type_ = 2  -> parse_int(marker, buf, pos)
      [] marker.type_ = 3  -> parse_12bytes(marker, buf, pos)
      [] marker.type_ \in {4, 5} -> string_of(marker, _read_byte_data(buf, pos))
      [] marker.type_ = 6  -> utf_string_of(marker, _read_byte_data(buf, pos))
      [] marker.type_ = 10 -> parse_array0A(marker, buf, pos)
      [] marker.type_ = 11 -> parse_array0B(marker, buf, pos)
      [] marker.type_ = 13 -> parse_16bytes(marker, buf, pos)
      [] marker.type_ = 20 -> parse_timestamp(marker, buf, pos)
      [] marker.type_ = 24 -> compressed_of(marker, _read_byte_data(buf, pos))
      [] OTHER -> Ret(None, pos, FALSE)

(***************************************************************************)
(* File sections                                                           *)
(***************************************************************************)
EmptyFileSection == [kind |-> "EmptyFileSection"]
RegularFileSection(type_, elements) ==
    [kind |-> "RegularFileSection", type_ |-> type_, elements |-> elements]
NamelessSection(type_, elements) ==
    [kind |-> "NamelessSection", type_ |-> type_, elements |-> elements]

(* isinstance(section, RegularFileSection): NamelessSection is a subclass *)
IsRegularFileSection(section) ==
    section.kind \in {"RegularFileSection", "NamelessSection"}

(* lines 534-537: a failed element (None) is reported and appended; the     *)
(* report evaluates marker.pretty_str(), which raises when marker is None   *)
elements_checked(marker, element) ==
    IF element.res # "ok" THEN WithShort(element, marker.short)
    ELSE IF element.val.kind = "None" /\ marker.val = NoMarker
    THEN Raise("AttributeError", element.pos, marker.short \/ element.short)
    ELSE Ret(<<element.val>>, element.pos, marker.short \/ element.short)

elements_one(buf, marker) ==
    elements_checked(marker, parse_element(marker.val, buf, marker.pos))

RECURSIVE parse_n_elements(_, _, _)

elements_rest(buf, n, a) ==
    IF a.res # "ok" THEN a ELSE loop_join(a, parse_n_elements(buf, a.pos, n))

(* for _ in range(n): the first n \div 2 iterations, then the others from   *)
(* where those ended                                                        *)
parse_n_elements(buf, pos, n) ==
    IF n <= 0 THEN Ret(<<>>, pos, FALSE)
    ELSE IF n = 1 THEN elements_one(buf, _parse_marker(buf, pos, <<>>))
    ELSE elements_rest(buf, n - (n \div 2), parse_n_elements(buf, pos, n \div 2))

(* count = count + 4 if (type_[0] == 1 and count > 0x40) else count *)
regular_count(type_, count) ==
    IF type_[1] = 1 /\ count > 64 THEN count + 4 ELSE count

regular_of(type_, els, s) ==
    IF els.res # "ok" THEN WithShort(els, s)
    ELSE Ret(RegularFileSection(type_.val[1], els.val), els.pos, s \/ els.short)

parse_regular_section(buf, pos) ==
    LET type_ == read(buf, pos, 4)
        count == _parse_int32(buf, pos + 4)
    IN  IF type_.val = <<16, 0, 0, 0>>
        THEN Ret(EmptyFileSection, type_.pos, FALSE)
        ELSE IF Len(type_.val) = 0      \* type_[0] on b''
        THEN Raise("IndexError", count.pos, TRUE)
        ELSE regular_of(type_,
                 parse_n_elements(buf, count.pos,
                                  regular_count(type_.val, count.val)),
                 type_.short \/ count.short)

(* count = count + 4 if count > 0x40 else count *)
nameless_count(count) == IF count > 64 THEN count + 4 ELSE count

nameless_of(els, s) ==
    IF els.res # "ok" THEN WithShort(els, s)
    ELSE Ret(NamelessSection(-1, els.val), els.pos, s \/ els.short)

parse_nameless_section(buf, pos) ==
    LET count == _parse_int32(buf, pos)
    IN  nameless_of(parse_n_elements(buf, count.pos, nameless_count(count.val)),
                    count.short)

subsection_of(idx, els, s) ==
    IF els.res # "ok" THEN WithShort(els, s)
    ELSE Ret(<< <<idx.val, els.val>> >>, els.pos, s \/ els.short)

(* idx, subcount, then subcount elements *)
parse_subsection(buf, pos) ==
    LET idx      == _parse_int32(buf, pos)
        subcount == _parse_int32(buf, pos + 4)
    IN  subsection_of(idx, parse_n_elements(buf, subcount.pos, subcount.val),
                      idx.short \/ subcount.short)

RECURSIVE parse_subsections(_, _, _)

subsections_rest(buf, n, a) ==
    IF a.res # "ok" THEN a ELSE loop_join(a, parse_subsections(buf, a.pos, n))

(* for _ in range(count) of parse_multisection, split as parse_n_elements *)
parse_subsections(buf, pos, n) ==
    IF n <= 0 THEN Ret(<<>>, pos, FALSE)
    ELSE IF n = 1 THEN parse_subsection(buf, pos)
    ELSE subsections_rest(buf, n - (n \div 2), parse_subsections(buf, pos, n \div 2))

multisection_of(res, s) ==
    IF res.res # "ok" THEN WithShort(res, s)
    ELSE Ret([kind |-> "MultiSection", subsections |-> res.val], res.pos,
             s \/ res.short)

parse_multisection(buf, pos) ==
    LET count == _parse_int32(buf, pos)
    IN  multisection_of(parse_subsections(buf, count.pos, count.val), count.short)

(* a chunk that ends the section although its size is exactly 0x10000 *)
last_chunk_inclusive(chunk_size) == chunk_size <= 65536

(* if chunk_size < 0x10000 (line 661) *)
last_chunk(chunk_size) == chunk_size < 65536

(* while True: read a chunk, append it, return once it is the last chunk *)
RECURSIVE parse_compressed_loop(_, _, _, _)
parse_compressed_loop(buf, pos, data, short) ==
    LET chunk_size == _parse_int32(buf, pos)
        chunk      == read(buf, chunk_size.pos, chunk_size.val)
    IN  IF last_chunk(chunk_size.val)
        THEN Ret([kind |-> "CompressedSection",
                  deflated_content |-> Append(data, chunk.val)], chunk.pos,
                 short \/ chunk_size.short \/ chunk.short)
        ELSE parse_compressed_loop(buf, chunk.pos, Append(data, chunk.val),
                                   short \/ chunk_size.short \/ chunk.short)

parse_compressed(buf, pos) == parse_compressed_loop(buf, pos, <<>>, FALSE)

(* [input_buffer.read(k) for _ in range(n)]: record i is read at the       *)
(* cursor pos + k * (i - 1)                                                *)
read_records(buf, pos, k, n) ==
    Ret([i \in 1..n |-> read(buf, pos + k * (i - 1), k).val],
        Min(pos + k * n, Len(buf)), pos + k * n > Len(buf))

(* [_parse_int32(input_buffer) for _ in range(n)] *)
read_cells(buf, pos, n) ==
    Ret([i \in 1..n |-> _parse_int32(buf, pos + 4 * (i - 1)).val],
        Min(pos + 4 * n, Len(buf)), pos + 4 * n > Len(buf))

parse_bmap(buf, pos) ==
    LET type_ == _parse_int32(buf, pos)
        w     == _parse_int32(buf, pos + 4)
        h     == _parse_int32(buf, pos + 8)
        data  == read_cells(buf, h.pos, w.val * h.val)
    IN  Ret([kind |-> "BitmapSection", type_ |-> type_.val,
             size |-> <<w.val, h.val>>, bmap |-> data.val], data.pos,
            h.short \/ data.short)

parse_pairs_section(buf, pos) ==
    LET lit     == read(buf, pos, 4)
        count   == _parse_int32(buf, pos + 4)
        entries == read_records(buf, count.pos, 10, count.val)
    IN  IF lit.val # <<165, 165, 0, 0>>
        THEN Raise("AssertionError", lit.pos, lit.short)
        ELSE Ret([kind |-> "PairsSection", entries |-> entries.val],
                 entries.pos, count.short \/ entries.short)

(* the 12-byte trailer, after the records; line 719 stores the builtin     *)
(* class `bytes`, not the blob that was read                               *)
weird_of(buf, tuples, s) ==
    LET trailer == read(buf, tuples.pos, 12)
    IN  IF trailer.val # <<1, 0, 0, 0, 1, 0, 0, 0, 1, 0, 0, 0>>
        THEN Raise("AssertionError", trailer.pos, s \/ tuples.short \/ trailer.short)
        ELSE Ret([kind |-> "AlmostConstantSection", bytes_ |-> "<class 'bytes'>",
                  flagged_ints |-> tuples.val], trailer.pos, s \/ tuples.short)

weird_tuples(buf, len_tuples, s) ==
    weird_of(buf, read_records(buf, len_tuples.pos, 5, len_tuples.val),
             s \/ len_tuples.short)

parse_weird_constant_data(buf, pos) ==
    LET len_bytes == _parse_int32(buf, pos)
        bytes_    == read(buf, pos + 4, len_bytes.val)
    IN  weird_tuples(buf, _parse_int32(buf, bytes_.pos),
                     len_bytes.short \/ bytes_.short)

custom_of(label, els, s) ==
    IF els.res # "ok" THEN WithShort(els, s)
    ELSE Ret([kind |-> "CustomDataSection", label |-> label.val,
              elements |-> els.val], els.pos, s \/ els.short)

custom_count(buf, label, count, s) ==
    custom_of(label, parse_n_elements(buf, count.pos, count.val),
              s \/ count.short)

parse_custom_data(buf, pos) ==
    LET len_label == _parse_int32(buf, pos)
        label     == read(buf, pos + 4, len_label.val)
    IN  custom_count(buf, label, _parse_int32(buf, label.pos),
                     len_label.short \/ label.short)

(***************************************************************************)
(* Encoders                                                                *)
(***************************************************************************)
SerOk(b)    == [res |-> "ok", exc |-> "", val |-> b]
SerRaise(x) == [res |-> "raise", exc |-> x, val |-> <<>>]

(* Marker.serialize: `return name + ...` reads an undefined global `name` *)
Marker_serialize(marker) == SerRaise("NameError")

(* GameElement.serialize of each class, and of None.  Every one of them    *)
(* raises before it produces a byte: through Marker.serialize (NameError), *)
(* through an attribute or a global that does not exist, or through        *)
(* `self.marker.serialize + bytes` (a bound method plus bytes).            *)
GameElement_serialize(e) ==
    CASE e.kind = "None"             -> SerRaise("AttributeError")
      [] e.kind = "IntElement"       -> SerRaise("AttributeError")
      [] e.kind = "BooleanElement"   -> SerRaise("TypeError")
      [] e.kind = "TimestampElement" -> SerRaise("TypeError")
      [] e.kind \in {"Unknown12Bytes", "Unknown16Bytes", "CompressedElement",
                     "Array0AElement"} -> SerRaise("NameError")
      [] OTHER                       -> Marker_serialize(e.marker)

(* b''.join(element.serialize() for element in elements) *)
RECURSIVE join_serialize(_, _)
join_serialize(elements, acc) ==
    IF Len(elements) = 0 THEN SerOk(acc)
    ELSE LET x == GameElement_serialize(Head(elements))
         IN  IF x.res # "ok" THEN x
             ELSE join_serialize(Tail(elements), acc \o x.val)

(* reported_size -= 4 if self.type_ == 1 and reported_size >= 0x40 *)
reported_size(type_, n) == IF type_ = 1 /\ n >= 64 THEN n - 4 ELSE n

RegularFileSection_serialize(section) ==
    LET t == _to_bytes(section.type_)
        c == _to_bytes(reported_size(section.type_, Len(section.elements)))
        b == join_serialize(section.elements, <<>>)
    IN  IF t.res # "ok" THEN t
        ELSE IF c.res # "ok" THEN c
        ELSE IF b.res # "ok" THEN b
        ELSE SerOk(t.val \o c.val \o b.val)

(* return super().serialize()[4:] *)
NamelessSection_serialize(section) ==
    LET b == RegularFileSection_serialize(section)
    IN  IF b.res # "ok" THEN b ELSE SerOk(Slice(b.val, 4, Len(b.val)))

(* FileSection.serialize, by class.  CompressedSection.serialize has no    *)
(* return statement (it returns None); the remaining classes read a        *)
(* missing attribute or global, or take len() of the class `bytes`.        *)
FileSection_serialize(section) ==
    CASE section.kind = "RegularFileSection" -> RegularFileSection_serialize(section)
      [] section.kind = "NamelessSection"    -> NamelessSection_serialize(section)
      [] section.kind = "EmptyFileSection"   -> SerOk(<<16, 0, 0, 0>>)
      [] section.kind = "MultiSection"       -> SerRaise("AttributeError")
      [] section.kind = "CompressedSection"  -> [res |-> "ok", exc |-> "", val |-> None]
      [] section.kind = "AlmostConstantSection" -> SerRaise("TypeError")
      [] OTHER                               -> SerRaise("NameError")

(***************************************************************************)
(* Input documents                                                         *)
(***************************************************************************)
MaxTrail == 2          \* bytes appended after a complete document
MaxScanItems == 2      \* items after the magic in a scanned stream
MaxScanResult == 10    \* entries the scan result may hold in the model

I32(x) == ToBytes(x, 4)

RECURSIVE Rep(_, _)
Rep(b, n) == IF n = 0 THEN <<>> ELSE b \o Rep(b, n - 1)

MAGIC    == <<67, 73, 86, 54>>                      \* b'CIV6'
SENTINEL == <<16, 0, 0, 0>>
TRAILER  == <<1, 0, 0, 0, 1, 0, 0, 0, 1, 0, 0, 0>>
TAG      == <<97, 98, 99, 100>>                     \* an element name, b'abcd'
LABEL    == <<67, 117, 115, 116, 111, 109, 68, 97, 116, 97>>  \* b'CustomData'

E_Bool(v)  == TAG \o I32(1) \o Zeros(8) \o I32(v)
E_Int(v)   == TAG \o I32(2) \o Zeros(8) \o I32(v)
E_BadPad   == TAG \o I32(2) \o <<0, 0, 0, 0, 0, 0, 0, 1>> \o I32(5)
E_Opaque12 == TAG \o I32(3) \o Zeros(12)
E_Unknown  == TAG \o I32(119)
E_Str      == TAG \o I32(4) \o <<2, 0, 0, 33>> \o I32(1) \o <<104, 105>>
E_BadStr   == TAG \o I32(4) \o <<2, 0, 0, 32>> \o I32(1) \o <<104, 105>>
E_Utf      == TAG \o I32(6) \o <<0, 0, 0, 32>> \o Zeros(8)
E_Time     == TAG \o I32(20) \o <<0, 0, 0, 128, 0, 0, 0, 0>> \o I32(1000) \o Zeros(4)
E_BadTime  == TAG \o I32(20) \o Zeros(16)
E_Arr0A    == TAG \o I32(10) \o <<0, 0, 0, 5, 0, 0, 0, 0>> \o I32(1) \o E_Bool(1)
E_BadArr0A == TAG \o I32(10) \o Zeros(8) \o I32(0)
E_Arr0B    == TAG \o I32(11) \o Zeros(8) \o I32(2) \o I32(3) \o Zeros(12) \o I32(119)
E_Blob     == TAG \o I32(24) \o <<14, 0, 0, 33>> \o I32(1) \o TAG \o I32(2)
                  \o I32(2) \o <<7, 7>>
E_BadBlob  == TAG \o I32(24) \o <<10, 0, 0, 33>> \o I32(1) \o TAG \o I32(2)
                  \o <<7, 7>>
(* an anonymous array of an Unknown12Bytes and an Int32 child *)
E_Arr0BWell == TAG \o I32(11) \o <<1, 2, 3, 4, 5, 6, 7, 8>> \o I32(2)
                   \o I32(3) \o Zeros(12) \o I32(2) \o Zeros(8) \o I32(7)
(* a blob whose only chunk declares 5 bytes and holds 2 *)
E_CutBlob  == TAG \o I32(24) \o <<14, 0, 0, 33>> \o I32(1) \o TAG \o I32(2)
                  \o I32(5) \o <<7, 7>>
(* strings of count 0 without the 0x21 header byte *)
E_EmptyStr    == TAG \o I32(4) \o <<0, 0, 0, 32>> \o I32(1) \o Zeros(4)
E_OddEmptyStr == TAG \o I32(4) \o <<0, 0, 0, 32>> \o I32(1) \o <<0, 0, 0, 1>>
TERMINATOR == <<0, 0, 1, 0>>

Reg(type_, n, body) == type_ \o I32(n) \o body

Doc(s1, multi, nameless, comp, bmap, pairs, weird, custom) ==
    MAGIC \o s1 \o multi \o nameless \o comp \o bmap \o pairs \o weird \o custom

Multi0    == I32(0)
Nameless0 == I32(0)
Comp0     == I32(0)
Bmap0(t)  == I32(t) \o I32(0) \o I32(0)
Pairs0    == <<165, 165, 0, 0>> \o I32(0)
Weird0    == I32(0) \o I32(0) \o TRAILER
Custom0   == I32(10) \o LABEL \o I32(0)

(* the minimal document of the specification's end-to-end property *)
MinimalDoc(t) ==
    Doc(SENTINEL, Multi0, Nameless0, Comp0, Bmap0(t), Pairs0, Weird0, Custom0)

(* stage 1 ended by a regular section of zero elements *)
Stage1Choices ==
    { Reg(I32(0), 0, <<>>),
      Reg(<<2, 1, 0, 0>>, 0, <<>>),
      SENTINEL \o Reg(I32(1), 0, <<>>),
      Reg(I32(1), 2, E_Bool(1) \o E_Time) \o Reg(I32(3), 0, <<>>),
      Reg(I32(2), 1, E_Unknown) \o Reg(I32(0), 0, <<>>),
      Reg(I32(2), 2, E_Bool(2) \o E_Int(7)) \o SENTINEL \o Reg(I32(0), 0, <<>>) }

MultiNamelessChoices ==
    { Multi0 \o Nameless0,
      I32(1) \o I32(7) \o I32(1) \o E_Int(3) \o I32(1) \o E_Str }

CompBmapChoices ==
    { Comp0 \o Bmap0(0),
      I32(3) \o <<1, 2, 3>> \o I32(1) \o I32(1) \o I32(2) \o I32(9) \o I32(8) }

PairsWeirdChoices ==
    { Pairs0 \o Weird0,
      <<165, 165, 0, 0>> \o I32(1) \o Zeros(10)
         \o I32(1) \o <<7>> \o I32(1) \o <<1, 2, 3, 4, 5>> \o TRAILER }

CustomChoices ==
    { Custom0,
      I32(10) \o LABEL \o I32(1) \o E_Bool(2),
      I32(2) \o <<104, 105>> \o I32(2) \o E_Int(5) \o E_Arr0B }

CodeDocs ==
    { MAGIC \o s1 \o mn \o cb \o pw \o cu :
        s1 \in Stage1Choices, mn \in MultiNamelessChoices,
        cb \in CompBmapChoices, pw \in PairsWeirdChoices, cu \in CustomChoices }

(* the same document with stage 1 ended by a regular section of zero        *)
(* elements in place of the sentinel                                       *)
EndedDoc(t) ==
    Doc(Reg(I32(0), 0, <<>>), Multi0, Nameless0, Comp0, Bmap0(t), Pairs0,
        Weird0, Custom0)

SimpleDoc == EndedDoc(0)
RichDoc ==
    MAGIC \o Reg(I32(1), 1, E_Bool(1)) \o Reg(I32(3), 0, <<>>)
          \o I32(1) \o I32(7) \o I32(1) \o E_Int(3) \o I32(1) \o E_Str
          \o I32(3) \o <<1, 2, 3>> \o I32(1) \o I32(1) \o I32(2) \o I32(9) \o I32(8)
          \o <<165, 165, 0, 0>> \o I32(1) \o Zeros(10)
          \o I32(1) \o <<7>> \o I32(1) \o <<1, 2, 3, 4, 5>> \o TRAILER
          \o I32(10) \o LABEL \o I32(1) \o E_Bool(0)

Prefixes(d) == { SubSeq(d, 1, k) : k \in 0..(Len(d) - 1) }

(* a regular section of raw count r followed by n elements, then the rest *)
QuirkDoc(low, r, n) ==
    Doc(Reg(I32(low), r, Rep(E_Int(7), n)) \o Reg(I32(0), 0, <<>>),
        Multi0, Nameless0, Comp0, Bmap0(0), Pairs0, Weird0, Custom0)

QuirkDocs ==
    { QuirkDoc(1, 63, 63), QuirkDoc(1, 64, 64), QuirkDoc(1, 64, 68),
      QuirkDoc(1, 65, 69), QuirkDoc(2, 65, 65), QuirkDoc(2, 64, 64) }

(* a compressed section of the given chunks, in a document *)
Chunk(n) == I32(n) \o Zeros(n)
ChunkDoc(chunks) ==
    Doc(Reg(I32(0), 0, <<>>), Multi0, Nameless0, chunks, Bmap0(0),
        Pairs0, Weird0, Custom0)
(* a document that ends 3 bytes into a chunk of declared size n *)
CutChunkDoc(n) ==
    MAGIC \o Reg(I32(0), 0, <<>>) \o Multi0 \o Nameless0 \o I32(n) \o <<1, 2, 3>>
ChunkDocs ==
    { ChunkDoc(Chunk(131072) \o Chunk(20480)),
      ChunkDoc(Chunk(65535)),
      CutChunkDoc(65536), CutChunkDoc(65535) }

StrictInputs ==
    { MinimalDoc(t) : t \in 0..2 }
    \cup { EndedDoc(t) : t \in 0..2 }
    \cup CodeDocs
    \cup Prefixes(SimpleDoc) \cup Prefixes(RichDoc)
    \cup { d \o Zeros(k) : d \in {SimpleDoc, RichDoc, MinimalDoc(0)}, k \in 1..MaxTrail }
    \cup QuirkDocs
    \cup ChunkDocs
    \cup { <<67, 73, 86, 53>> \o SENTINEL }

ScanItems ==
    { E_Bool(0), E_Bool(1), E_Bool(2), E_Bool(3), E_Bool(300), E_Int(7), E_BadPad, E_Opaque12,
      E_Unknown, E_Str, E_BadStr, E_EmptyStr, E_OddEmptyStr, E_Utf, E_BadTime,
      E_Arr0A, E_BadArr0A, E_Arr0B, E_Arr0BWell, E_Blob, E_BadBlob, E_CutBlob,
      TERMINATOR, TERMINATOR \o I32(3), <<97, 98>> }

RECURSIVE ScanBodies(_)
ScanBodies(n) ==
    IF n = 0 THEN { <<>> }
    ELSE LET shorter == ScanBodies(n - 1)
         IN  shorter \cup { b \o x : b \in shorter, x \in ScanItems }

ScanInputs ==
    { MAGIC \o b : b \in ScanBodies(MaxScanItems) } \cup { <<67, 73, 86, 53>> }

(***************************************************************************)
(* The decoder as a state machine                                          *)
(***************************************************************************)
VARIABLES
    input,             \* the bytes of the input buffer
    mode,              \* "strict": parse_civ6save; "scan": parse_jack_shit
    pc,                \* the statement the entry point is at
    pos,               \* input_buffer.tell()
    result,            \* the list `result` of the entry point
    starts,            \* cursor at which each entry of result began (the
                       \* offsets the code prints as "At 0x.. ## NEW ...")
    status,            \* "running", "returned", "raised" or "exited"
    exc,               \* the exception that ended the call, if any
    short,             \* a read so far was given fewer bytes than it asked for
    after_parsing_at,  \* local of parse_civ6save (line 765); -1 before it is set
    out                \* last FileSection.serialize call: section index, outcome

vars == <<input, mode, pc, pos, result, starts, status, exc, short,
          after_parsing_at, out>>

NoOut == [idx |-> 0, res |-> "none", exc |-> "", val |-> <<>>]

Init ==
    /\ mode \in {"strict", "scan"}
    /\ input \in (IF mode = "strict" THEN StrictInputs ELSE ScanInputs)
    /\ pc = (IF mode = "strict" THEN "stage0" ELSE "scan0")
    /\ pos = 0
    /\ result = <<>>
    /\ starts = <<>>
    /\ status = "running"
    /\ exc = ""
    /\ short = FALSE
    /\ after_parsing_at = -1
    /\ out = NoOut

(* the call ends with an exception (or exit) raised by a decoding function *)
Abort(r) ==
    /\ status' = (IF r.res = "exit" THEN "exited" ELSE "raised")
    /\ exc' = r.exc
    /\ pos' = r.pos
    /\ short' = (short \/ r.short)
    /\ UNCHANGED <<input, mode, pc, result, starts, after_parsing_at, out>>

(* assert input_buffer.read(4) == b'CIV6' (lines 734 and 689) *)
ReadMagic(next) ==
    LET m == read(input, pos, 4)
    IN  IF m.val = MAGIC
        THEN /\ pc' = next
             /\ pos' = m.pos
             /\ short' = (short \/ m.short)
             /\ UNCHANGED <<input, mode, result, starts, status, exc,
                            after_parsing_at, out>>
        ELSE Abort(Raise("AssertionError", m.pos, m.short))

Stage0 ==
    /\ mode = "strict" /\ status = "running" /\ pc = "stage0"
    /\ ReadMagic("stage1")

(* result.append(<section>) and the move to the next statement *)
AppendSection(r, next) ==
    IF r.res # "ok" THEN Abort(r)
    ELSE /\ result' = Append(result, r.val)
         /\ starts' = Append(starts, pos)
         /\ pos' = r.pos
         /\ short' = (short \/ r.short)
         /\ pc' = next
         /\ UNCHANGED <<input, mode, status, exc, after_parsing_at, out>>

(* a loop that the sentinel section ends, and nothing else *)
stage1_break_on_sentinel(section) == section.kind = "EmptyFileSection"

(* a loop that the sentinel section ends as well *)
stage1_break_on_any_empty(section) ==
    \/ section.kind = "EmptyFileSection"
    \/ (IsRegularFileSection(section) /\ Len(section.elements) = 0)

(* the loop test of stage 1 (line 741) *)
stage1_break(section) ==
    IsRegularFileSection(section) /\ Len(section.elements) = 0

(* one iteration of the stage-1 loop (lines 738-742) *)
Stage1Append(section) ==
    AppendSection(section, IF section.res = "ok" /\ stage1_break(section.val)
                           THEN "stage2" ELSE "stage1")

Stage1 ==
    /\ mode = "strict" /\ status = "running" /\ pc = "stage1"
    /\ Stage1Append(parse_regular_section(input, pos))

Stage2 ==
    /\ mode = "strict" /\ status = "running" /\ pc = "stage2"
    /\ AppendSection(parse_multisection(input, pos), "stage3")

Stage3 ==
    /\ mode = "strict" /\ status = "running" /\ pc = "stage3"
    /\ AppendSection(parse_nameless_section(input, pos), "stage4")

Stage4 ==
    /\ mode = "strict" /\ status = "running" /\ pc = "stage4"
    /\ AppendSection(parse_compressed(input, pos), "stage5")

Stage5 ==
    /\ mode = "strict" /\ status = "running" /\ pc = "stage5"
    /\ AppendSection(parse_bmap(input, pos), "stage6")

Stage6 ==
    /\ mode = "strict" /\ status = "running" /\ pc = "stage6"
    /\ AppendSection(parse_pairs_section(input, pos), "stage7")

Stage7 ==
    /\ mode = "strict" /\ status = "running" /\ pc = "stage7"
    /\ AppendSection(parse_weird_constant_data(input, pos), "stage8")

Stage8 ==
    /\ mode = "strict" /\ status = "running" /\ pc = "stage8"
    /\ AppendSection(parse_custom_data(input, pos), "post")

(* a test that only rejects a cursor beyond the end *)
at_end_not_beyond(after, file_end_at) == after <= file_end_at

(* the end-of-input test (line 768) *)
at_end(after, file_end_at) == after = file_end_at

(* lines 765-771: tell(), seek(0, SEEK_END), tell(), compare, return *)
PostCheck ==
    /\ mode = "strict" /\ status = "running" /\ pc = "post"
    /\ after_parsing_at' = pos
    /\ pos' = Len(input)
    /\ IF at_end(pos, Len(input))
       THEN status' = "returned" /\ exc' = ""
       ELSE status' = "raised" /\ exc' = "RuntimeError"
    /\ pc' = "done"
    /\ UNCHANGED <<input, mode, result, starts, short, out>>

SerializeOutcome(i, b) == [idx |-> i, res |-> b.res, exc |-> b.exc, val |-> b.val]

(* a caller encodes one section of the returned Document *)
Serialize ==
    /\ mode = "strict" /\ status = "returned"
    /\ \E i \in 1..Len(result) :
          out' = SerializeOutcome(i, FileSection_serialize(result[i]))
    /\ UNCHANGED <<input, mode, pc, pos, result, starts, status, exc, short,
                   after_parsing_at>>

Scan0 ==
    /\ mode = "scan" /\ status = "running" /\ pc = "scan0"
    /\ ReadMagic("scan")

(* lines 695-707, given the window's tag_bytes and the decoded element *)
ScanElement(tag_bytes, element) ==
    IF element.res # "ok" THEN Abort(element)
    ELSE /\ starts' = Append(starts, pos)
         /\ short' = (short \/ element.short)
         /\ IF element.val.kind = "None"
            THEN /\ result' = Append(result, RawBytes(tag_bytes.val))
                 /\ IF tag_bytes.val = TERMINATOR
                    THEN /\ status' = "returned"
                         /\ pc' = "done"
                         /\ pos' = element.pos
                    ELSE /\ pos' = tag_bytes.pos      \* seek(skip_target_pos)
                         /\ UNCHANGED <<status, pc>>
            ELSE /\ result' = Append(result, element.val)
                 /\ pos' = element.pos
                 /\ UNCHANGED <<status, pc>>
         /\ UNCHANGED <<input, mode, exc, after_parsing_at, out>>

ScanMarker(tag_bytes, marker) ==
    ScanElement(tag_bytes,
                WithShort(parse_element(marker.val, input, marker.pos),
                          tag_bytes.short \/ marker.short))

ScanWindow(tag_bytes) ==
    ScanMarker(tag_bytes, _parse_marker(input, tag_bytes.pos, tag_bytes.val))

(* one iteration of the while loop of parse_jack_shit (lines 692-708).     *)
(* read() never returns None, so the loop test is always true.             *)
(* elements_since only feeds print() and is left out.                      *)
ScanStep ==
    /\ mode = "scan" /\ status = "running" /\ pc = "scan"
    /\ Len(result) < MaxScanResult
    /\ ScanWindow(read(input, pos, 4))

(* a caller encodes one element of the list the scan returned *)
SerializeElement ==
    /\ mode = "scan" /\ status = "returned"
    /\ \E i \in 1..Len(result) :
          /\ result[i].kind # "bytes"
          /\ out' = SerializeOutcome(i, GameElement_serialize(result[i]))
    /\ UNCHANGED <<input, mode, pc, pos, result, starts, status, exc, short,
                   after_parsing_at>>

Next ==
    \/ Stage0 \/ Stage1 \/ Stage2 \/ Stage3 \/ Stage4 \/ Stage5 \/ Stage6
    \/ Stage7 \/ Stage8 \/ PostCheck \/ Serialize \/ Scan0 \/ ScanStep
    \/ SerializeElement

Spec == Init /\ [][Next]_vars

(***************************************************************************)
(* Properties                                                              *)
(***************************************************************************)
SectionKinds == [i \in 1..Len(result) |-> result[i].kind]

LaterStages ==
    <<"MultiSection", "NamelessSection", "CompressedSection", "BitmapSection",
      "PairsSection", "AlmostConstantSection", "CustomDataSection">>

Finished(first) ==
    /\ pc = "done"
    /\ SectionKinds = <<first>> \o LaterStages
    /\ after_parsing_at = Len(input)
    /\ pos = Len(input)

LastAppended == result'[Len(result')]

Stage1Step == mode = "strict" /\ pc = "stage1" /\ status' = "running"

C3_ReturnsOnlyAtEnd ==
    mode = "strict" =>
        /\ status = "returned" =>
              (pc = "done" /\ after_parsing_at = Len(input))
        /\ (pc = "done" /\ after_parsing_at # Len(input)) =>
              (status = "raised" /\ exc = "RuntimeError")

C3_TrailingDataRejected ==
    /\ mode = "strict" /\ pc = "done" /\ Len(result) >= 8
    /\ after_parsing_at < Len(input)
    /\ status = "raised" /\ exc = "RuntimeError"

NoFailedIn(elements) == \A k \in 1..Len(elements) : elements[k].kind # "None"

NoFailedElement(section) ==
    CASE section.kind \in {"RegularFileSection", "NamelessSection",
                           "CustomDataSection"} -> NoFailedIn(section.elements)
      [] section.kind = "MultiSection" ->
            \A k \in 1..Len(section.subsections) :
                NoFailedIn(section.subsections[k][2])
      [] OTHER -> TRUE

(* C4, as stated: in the strict pipeline a failed element aborts the       *)
(* decode, so no Document that parse_civ6save returns has a section whose  *)
(* element list holds a failed (None) element.                             *)
C4_NoFailedElementReturned ==
    (mode = "strict" /\ status = "returned") =>
        \A i \in 1..Len(result) : NoFailedElement(result[i])

ScanLoop == mode = "scan" /\ pc = "scan" /\ status = "running"

(* the outcome of decoding a marker and an element at the window at pos *)
WindowTag == read(input, pos, 4)
WindowMarker == _parse_marker(input, WindowTag.pos, WindowTag.val)
WindowElement == parse_element(WindowMarker.val, input, WindowMarker.pos)
WindowFails ==
    WindowElement.res # "ok" \/ WindowElement.val.kind = "None"

(* C5, as stated: the scan of an input that begins with the magic          *)
(* terminates: it returns its result list when the end of the stream is    *)
(* reached, or when it reads 00 00 01 00 at a window it cannot decode.      *)
C5_ScanStopsAtEnd ==
    [][ScanLoop =>
          /\ pos = Len(input) => status' = "returned"
          /\ (WindowTag.val = TERMINATOR /\ WindowFails) =>
                status' = "returned"]_vars

(* C6, as stated: in the scan every failed attempt to decode a marker and  *)
(* an element at a window is recovered: the 4 bytes of the window are      *)
(* appended as a raw fragment, the cursor is set to the window start + 4   *)
(* and the scan goes on; no bad marker aborts the scan.                    *)
C6_ScanRecovers ==
    [][(/\ ScanLoop
        /\ pos + 4 <= Len(input)
        /\ WindowTag.val # TERMINATOR
        /\ WindowFails) =>
          /\ status' = "running"
          /\ result' = Append(result, RawBytes(WindowTag.val))
          /\ pos' = pos + 4]_vars

(* the type code's low byte and the raw count field of section i, as they  *)
(* stand in the input                                                      *)
LowByte(i) == input[starts[i] + 1]
RawCount(i) == _parse_int32(input, starts[i] + 4).val

(* C7, as stated: parse_regular_section reads raw count + 4 elements when  *)
(* the type code's low byte is 1 and the raw count is >= 0x40, and exactly *)
(* raw count elements otherwise.                                           *)
C7_CountQuirkFrom0x40 ==
    mode = "strict" =>
        \A i \in 1..Len(result) :
            result[i].kind = "RegularFileSection" =>
                Len(result[i].elements) =
                    IF LowByte(i) = 1 /\ RawCount(i) >= 64
                    THEN RawCount(i) + 4 ELSE RawCount(i)

(* C8, as stated: for every regular section that parse_regular_section     *)
(* produced, RegularFileSection.serialize writes back the 4-byte type code *)
(* and the raw count field that were read.                                 *)
C8_HeaderRoundTrip ==
    (out.idx # 0 /\ result[out.idx].kind = "RegularFileSection") =>
        /\ out.res = "ok"
        /\ Len(out.val) >= 8
        /\ SubSeq(out.val, 1, 8) =
              SubSeq(input, starts[out.idx] + 1, starts[out.idx] + 8)

(* the cursor at which chunk k of a compressed section that starts at s    *)
(* begins, given the chunks read before it                                 *)
RECURSIVE ChunkAt(_, _, _)
ChunkAt(chunks, s, k) ==
    IF k = 1 THEN s
    ELSE Min(ChunkAt(chunks, s, k - 1) + 4, Len(input)) + Len(chunks[k - 1])

Declared(chunks, s, k) == _parse_int32(input, ChunkAt(chunks, s, k)).val

ChunksEnd(chunks, s) == ChunkAt(chunks, s, Len(chunks) + 1)

(* C9: parse_compressed appends each chunk in order with the bytes that    *)
(* follow its declared length, and stops right after the first chunk whose *)
(* declared length is < 0x10000 without reading a byte beyond it: the      *)
(* result is non-empty, every chunk but the last declares >= 0x10000, the  *)
(* last declares < 0x10000, the next stage starts where the last chunk     *)
(* ends, and the lengths 0x20000, 0x5000 give exactly two chunks.          *)
C9_CompressedChunks ==
    mode = "strict" =>
        \A i \in 1..Len(result) :
            result[i].kind = "CompressedSection" =>
                LET c == result[i].deflated_content
                    s == starts[i]
                IN  /\ Len(c) >= 1
                    /\ \A k \in 1..Len(c) :
                          c[k] = read(input,
                                      Min(ChunkAt(c, s, k) + 4, Len(input)),
                                      Declared(c, s, k)).val
                    /\ \A k \in 1..(Len(c) - 1) : Declared(c, s, k) >= 65536
                    /\ Declared(c, s, Len(c)) < 65536
                    /\ i < Len(starts) => starts[i + 1] = ChunksEnd(c, s)
                    /\ (i = Len(result) /\ status = "running") =>
                          pos = ChunksEnd(c, s)
                    /\ (/\ s + 8 + 131072 + 20480 <= Len(input)
                        /\ _parse_int32(input, s).val = 131072
                        /\ _parse_int32(input, s + 4 + 131072).val = 20480) =>
                          (/\ Len(c) = 2
                           /\ Len(c[1]) = 131072
                           /\ Len(c[2]) = 20480)

C9_ReadOnAfter0x10000 ==
    /\ mode = "strict" /\ pc = "stage5"
    /\ result[Len(result)].kind = "CompressedSection"
    /\ Len(result[Len(result)].deflated_content) = 2
    /\ Declared(result[Len(result)].deflated_content, starts[Len(result)], 1)
          = 65536
    /\ Declared(result[Len(result)].deflated_content, starts[Len(result)], 2)
          < 65536

(* C10, as stated: parse_civ6save never returns a Document after a read    *)
(* that was given fewer bytes than it asked for.                           *)
C10_NoShortReadReturned ==
    (mode = "strict" /\ status = "returned") => ~short

(* the decode of the element that entry i of the scan result came from: its *)
(* window starts at starts[i] and its body 8 bytes later                     *)
ElementAt(i) == parse_element(result[i].marker, input, starts[i] + 8)

(* C11, as stated: for every well-formed anonymous array (type code 0xB),  *)
(* Array0BElement.serialize of the element parse_element decoded gives    *)
(* back the bytes it was decoded from: marker, 8-byte header, child count  *)
(* and each child as its 4-byte type code and body.                        *)
C11_AnonymousArrayRoundTrip ==
    (/\ mode = "scan" /\ out.idx # 0
     /\ result[out.idx].kind = "Array0BElement"
     /\ NoFailedIn(result[out.idx].content)
     /\ ~ElementAt(out.idx).short) =>
        /\ out.res = "ok"
        /\ out.val = SubSeq(input, starts[out.idx] + 1, starts[out.idx + 1])

RECURSIVE BooleansInDomain(_)
BooleansInDomain(e) ==
    CASE e.kind = "BooleanElement" -> e.value \in {0, 1}
      [] e.kind = "Array0AElement" ->
            \A k \in 1..Len(e.elements) : BooleansInDomain(e.elements[k])
      [] e.kind = "Array0BElement" ->
            \A k \in 1..Len(e.content) : BooleansInDomain(e.content[k])
      [] e.kind \in {"RegularFileSection", "NamelessSection",
                     "CustomDataSection"} ->
            \A k \in 1..Len(e.elements) : BooleansInDomain(e.elements[k])
      [] e.kind = "MultiSection" ->
            \A k \in 1..Len(e.subsections) :
                \A j \in 1..Len(e.subsections[k][2]) :
                    BooleansInDomain(e.subsections[k][2][j])
      [] OTHER -> TRUE

(* the scan is at a window that holds a complete Boolean body (type code   *)
(* 0x1, 8 bytes of padding, u32 value) whose padding is all zero           *)
BooleanWindow ==
    /\ ScanLoop
    /\ pos + 20 <= Len(input)
    /\ WindowMarker.val.type_ = 1
    /\ SubSeq(input, pos + 9, pos + 16) = Zeros(8)

(* C12: a Boolean element whose 8 padding bytes are zero decodes to a      *)
(* BooleanElement holding the value when the u32 value is 0 or 1, and to   *)
(* no element (the window is kept as a raw fragment) for every value >= 2; *)
(* no BooleanElement anywhere in a decoded tree holds a value outside      *)
(* {0, 1}.                                                                 *)
C12_BooleanDomain ==
    /\ [](\A i \in 1..Len(result) : BooleansInDomain(result[i]))
    /\ [][BooleanWindow =>
            IF _parse_int32(input, pos + 16).val <= 1
            THEN /\ result' = Append(result,
                        [kind |-> "BooleanElement",
                         marker |-> WindowMarker.val,
                         value |-> _parse_int32(input, pos + 16).val])
                 /\ pos' = pos + 20
            ELSE /\ result' = Append(result, RawBytes(WindowTag.val))
                 /\ pos' = pos + 4]_vars

C12_AcceptedThenRejected ==
    /\ mode = "scan" /\ Len(result) >= 2 /\ Len(input) >= 44
    /\ SubSeq(input, 5, 44) = E_Bool(1) \o E_Bool(2)
    /\ result[1].kind = "BooleanElement" /\ result[1].value = 1
    /\ result[2] = RawBytes(TAG)

(* the blob of the CompressedElement at entry i of the scan result, as it  *)
(* stands in the input: count (3 bytes), 0x21, stride, then the bytes      *)
BlobAt(i) ==
    read(input, starts[i] + 16,
         FromBytes(SubSeq(input, starts[i] + 9, starts[i] + 11))
           * _parse_int32(input, starts[i] + 12).val).val

(* chunks k.. of the list hold as many bytes as the length field at offset *)
(* i of blob b, and those that follow it, declare                          *)
RECURSIVE ChunksAsDeclared(_, _, _, _)
ChunksAsDeclared(b, i, chunks, k) ==
    IF k > Len(chunks) THEN TRUE
    ELSE /\ Len(chunks[k]) = FromBytes(Slice(b, i, i + 4))
         /\ ChunksAsDeclared(b, i + 4 + Len(chunks[k]), chunks, k + 1)

(* C13, as stated: every chunk in the list decoded from a CompressedBlob   *)
(* (type code 0x18) has exactly its declared chunkLength bytes; a blob     *)
(* that ends in the middle of a chunk is a decode failure, never a         *)
(* shortened chunk.                                                        *)
C13_ChunksHaveDeclaredLength ==
    mode = "scan" =>
        \A i \in 1..Len(result) :
            result[i].kind = "CompressedElement" =>
                ChunksAsDeclared(BlobAt(i), 8, result[i].chunks, 1)

(* the scan is at a window of a string type code (0x4 or 0x5) whose byte   *)
(* data is complete up to the 4 bytes after the stride placeholder and     *)
(* whose header byte is not 0x21                                           *)
PlainHeaderWindow ==
    /\ ScanLoop
    /\ pos + 20 <= Len(input)
    /\ WindowMarker.val.type_ \in {4, 5}
    /\ input[pos + 12] # 33

(* C14, as stated: in _read_byte_data with a header byte other than 0x21,  *)
(* a count of 0 followed (after the 4 stride-placeholder bytes) by 4 bytes *)
(* that are not all zero fails and returns no value; so does every         *)
(* non-zero count.                                                         *)
C14_PlainHeaderMismatchFails ==
    [][PlainHeaderWindow =>
          /\ (/\ SubSeq(input, pos + 9, pos + 11) = Zeros(3)
              /\ SubSeq(input, pos + 17, pos + 20) # Zeros(4)) =>
                 (status' = "raised" /\ result' = result)
          /\ SubSeq(input, pos + 9, pos + 11) # Zeros(3) =>
                 (status' = "raised" /\ result' = result)]_vars

(* C15, as stated: NamelessSection.serialize succeeds and emits the raw    *)
(* count field that was read, with no type prefix in front of it, followed *)
(* by the elements.                                                        *)
C15_NamelessSectionSerializes ==
    (/\ mode = "strict"
     /\ out.idx # 0
     /\ result[out.idx].kind = "NamelessSection") =>
        /\ out.res = "ok"
        /\ Len(out.val) >= 4
        /\ SubSeq(out.val, 1, 4) =
              SubSeq(input, starts[out.idx] + 1, starts[out.idx] + 4)

====
